---- MODULE Spec2Model ----
(***************************************************************************)
(* PlanItOut: the in-memory task store of TaskCalendar                     *)
(* (src/components/task-calendar.tsx), its scheduling heuristic            *)
(* sortTasksByAI, and the drag-and-drop path from the sidebar              *)
(* (src/unnamed/part_001, handleDragStart) to the calendar                 *)
(* (src/components/calendar-view.tsx, handleDrop).                         *)
(*                                                                         *)
(* Representation.                                                         *)
(*  - A JavaScript Date is a record of its local-time fields.  Calendar    *)
(*    days are consecutive integers (day 0 is 2025-01-20), so that         *)
(*    setDate(getDate() + k) is day + k, month and year roll-over          *)
(*    included.                                                            *)
(*  - An optional field (dueDate?, scheduledTime?) is a set with at most   *)
(*    one element; {} is undefined.  A Date object is always truthy, so    *)
(*    `task.dueDate` as a condition is `dueDate # {}`.                     *)
(*  - A task carries id, title, importance, dueDate, completed and         *)
(*    scheduledTime; title stands for the fields no operation of the store *)
(*    reads (title, description, estimatedTime, category, aiSuggested).    *)
(*  - One call of sortTasksByAI runs within one calendar day: the clock    *)
(*    reading `clock` stands for every `new Date()` of the call.  Local    *)
(*    time has no daylight-saving gap at the hours the code sets.          *)
(*  - Array.prototype.sort is the engine's; the comparator it is given is  *)
(*    not a consistent order, so the result depends on the algorithm.  The *)
(*    model runs V8's (Chrome, Node) for arrays shorter than 64.           *)
(***************************************************************************)
EXTENDS Integers, Sequences, FiniteSets, TLC

VARIABLES
  tasks,         \* the task list of the latest render (useState of TaskCalendar)
  now,           \* the latest reading of the clock
  dataTransfer,  \* the text of the drag in progress under "application/json"
  escaped,       \* an error has left a handler
  last,          \* the latest store operation, the list and the clock it ran on
  steps          \* the number of handlers run so far

vars == <<tasks, now, dataTransfer, escaped, last, steps>>

(***************************************************************************)
(* Bounds                                                                  *)
(***************************************************************************)
\* longest task list given to sortTasksByAI as an input
MaxLen == 4
\* longest task list of the store
MaxTasks == 5
\* longest sequence of handlers run on the store
MaxSteps == 4

\* the calendar day of the earliest call
Today == 3

(***************************************************************************)
(* Dates                                                                   *)
(***************************************************************************)
\* new Date(y, m, d, h, mi): the fields not given are 0
date(d, h, mi) == [day |-> d, hour |-> h, minute |-> mi, second |-> 0, ms |-> 0]

\* Date.prototype.getTime: milliseconds on the model's day axis
getTime(d) == (((d.day * 24 + d.hour) * 60 + d.minute) * 60 + d.second) * 1000 + d.ms

\* targetDate.setDate(targetDate.getDate() + k)
addDays(d, k) == [d EXCEPT !.day = @ + k]

\* (setHours with the hour alone: minutes, seconds and ms are kept)
setHoursOnly(d, h, mi, s, m) == [d EXCEPT !.hour = h]

\* targetDate.setHours(hour, 0, 0, 0)
setHours(d, h, mi, s, m) == [d EXCEPT !.hour = h, !.minute = mi, !.second = s, !.ms = m]

\* the values read from the clock
Clocks ==
  { [day |-> Today,     hour |-> 8,  minute |-> 30, second |-> 15, ms |-> 250],
    [day |-> Today,     hour |-> 23, minute |-> 59, second |-> 59, ms |-> 999],
    [day |-> Today + 1, hour |-> 8,  minute |-> 30, second |-> 15, ms |-> 250] }

\* the value of an optional field that is present
Value(opt) == CHOOSE v \in opt : TRUE

(***************************************************************************)
(* The task list after construction                                        *)
(***************************************************************************)
InitialTasks ==
  << [id |-> "1", title |-> "Complete project proposal", importance |-> 9,
      dueDate |-> {date(4, 0, 0)}, completed |-> FALSE,
      scheduledTime |-> {date(2, 9, 0)}],
     [id |-> "2", title |-> "Review pull requests", importance |-> 7,
      dueDate |-> {}, completed |-> FALSE,
      scheduledTime |-> {date(2, 14, 0)}],
     [id |-> "3", title |-> "Gym workout", importance |-> 5,
      dueDate |-> {}, completed |-> FALSE,
      scheduledTime |-> {date(2, 18, 0)}] >>

(***************************************************************************)
(* sortTasksByAI                                                           *)
(***************************************************************************)
\* (the comparison with a and b swapped in the importance test)
compareAscending(a, b) ==
  IF b.importance # a.importance
    THEN a.importance - b.importance
    ELSE IF a.dueDate # {} /\ b.dueDate # {}
           THEN getTime(Value(a.dueDate)) - getTime(Value(b.dueDate))
           ELSE 0

\* the comparison function handed to Array.prototype.sort
compare(a, b) ==
  IF b.importance # a.importance
    THEN b.importance - a.importance
    ELSE IF a.dueDate # {} /\ b.dueDate # {}
           THEN getTime(Value(a.dueDate)) - getTime(Value(b.dueDate))
           ELSE 0

\* Array.prototype.sort, as V8 runs it on an array shorter than 64 elements:
\* the leading run is found (and reversed when strictly descending), the
\* rest is inserted by binary insertion.
Reverse(a) == [i \in 1..Len(a) |-> a[Len(a) + 1 - i]]

RECURSIVE RunLength(_, _, _)
RunLength(a, idx, isDescending) ==
  IF idx > Len(a) THEN idx - 1
  ELSE LET order == compare(a[idx], a[idx - 1]) IN
       IF isDescending /\ order >= 0 THEN idx - 1
       ELSE IF ~isDescending /\ order < 0 THEN idx - 1
       ELSE RunLength(a, idx + 1, isDescending)

RECURSIVE BinarySearch(_, _, _, _)
BinarySearch(a, pivot, left, right) ==
  IF left < right
    THEN LET mid == left + (right - left) \div 2 IN
         IF compare(pivot, a[mid + 1]) < 0
           THEN BinarySearch(a, pivot, left, mid)
           ELSE BinarySearch(a, pivot, mid + 1, right)
    ELSE left

RECURSIVE BinaryInsertionSort(_, _)
BinaryInsertionSort(a, start) ==
  IF start < Len(a)
    THEN LET pivot == a[start + 1]
             left  == BinarySearch(a, pivot, 0, start)
             moved == SubSeq(a, 1, left) \o <<pivot>> \o SubSeq(a, left + 1, start)
                        \o SubSeq(a, start + 2, Len(a))
         IN BinaryInsertionSort(moved, start + 1)
    ELSE a

sort(a) ==
  IF Len(a) < 2 THEN a
  ELSE LET isDescending == compare(a[2], a[1]) < 0
           run == RunLength(a, 3, isDescending)
           made == IF isDescending
                     THEN Reverse(SubSeq(a, 1, run)) \o SubSeq(a, run + 1, Len(a))
                     ELSE a
       IN BinaryInsertionSort(made, run)

\* Math.ceil(x / 2)
ceilHalf(x) == -((-x) \div 2)

\* Math.max(1, Math.ceil((10 - task.importance) / 2))
daysBeforeDue(task) ==
  LET c == ceilHalf(10 - task.importance) IN IF c > 1 THEN c ELSE 1

\* (the tiers with > in place of >=)
slotHourStrict(task) ==
  IF task.importance > 8 THEN 9 ELSE IF task.importance > 6 THEN 13 ELSE 15

\* task.importance >= 8 ? 9 : task.importance >= 6 ? 13 : 15
slotHour(task) ==
  IF task.importance >= 8 THEN 9 ELSE IF task.importance >= 6 THEN 13 ELSE 15

\* (the fallback with an index counted from 1)
targetDateFromOne(task, index, clock) ==
  IF task.dueDate # {}
    THEN addDays(Value(task.dueDate), -daysBeforeDue(task))
    ELSE addDays(clock, (index + 1) \div 3)

\* the day targetDate is on before its time of day is set
targetDate(task, index, clock) ==
  IF task.dueDate # {}
    THEN addDays(Value(task.dueDate), -daysBeforeDue(task))
    ELSE addDays(clock, index \div 3)

\* (the callback without the fallback for tasks that have no dueDate)
scheduleDueOnly(task, index, clock) ==
  IF task.completed \/ task.scheduledTime # {} \/ task.dueDate = {}
    THEN task
    ELSE [task EXCEPT !.scheduledTime =
            {setHours(targetDate(task, index, clock), slotHour(task), 0, 0, 0)}]

\* (the callback without the test of task.completed)
scheduleCompleted(task, index, clock) ==
  IF task.scheduledTime # {}
    THEN task
    ELSE [task EXCEPT !.scheduledTime =
            {setHours(targetDate(task, index, clock), slotHour(task), 0, 0, 0)}]

\* (the callback without the test of task.scheduledTime)
scheduleAgain(task, index, clock) ==
  IF task.completed
    THEN task
    ELSE [task EXCEPT !.scheduledTime =
            {setHours(targetDate(task, index, clock), slotHour(task), 0, 0, 0)}]

\* the callback of sorted.map; index counts from 0
schedule(task, index, clock) ==
  IF task.completed \/ task.scheduledTime # {}
    THEN task
    ELSE [task EXCEPT !.scheduledTime =
            {setHours(targetDate(task, index, clock), slotHour(task), 0, 0, 0)}]

\* the list handed to setTasks by sortTasksByAI when the clock reads `clock`
sortTasksByAI(ts, clock) ==
  LET sorted == sort(ts) IN
  [i \in 1..Len(sorted) |-> schedule(sorted[i], i - 1, clock)]

(***************************************************************************)
(* The store operations                                                    *)
(***************************************************************************)
\* Date.now().toString()
newId(clock) == ToString(getTime(clock))

\* { ...task, ...updates }: the fields of updates replace those of task
merge(task, updates) ==
  [f \in DOMAIN task |-> IF f \in DOMAIN updates THEN updates[f] ELSE task[f]]

\* the list handed to setTasks by addTask
addTask(ts, newTask, clock) ==
  Append(ts, merge([id |-> newId(clock), title |-> "", importance |-> 0,
                    dueDate |-> {}, completed |-> FALSE, scheduledTime |-> {}],
                   [newTask EXCEPT !.id = newId(clock), !.completed = FALSE]))

\* the list handed to setTasks by updateTask; id is optional, {} being the
\* undefined that `taskData.id` gives for a value without an id
updateTask(ts, id, updates) ==
  [i \in 1..Len(ts) |-> IF {ts[i].id} = id THEN merge(ts[i], updates) ELSE ts[i]]

\* the list handed to setTasks by deleteTask
deleteTask(ts, id) ==
  LET keep(task) == task.id # id IN SelectSeq(ts, keep)

(***************************************************************************)
(* Drag and drop.  The text stored under "application/json" is modelled by *)
(* what JSON.parse makes of it: "malformed" (a SyntaxError; also the empty *)
(* string getData returns when the drag carries no such data), "null", or  *)
(* "object" with the properties handleDrop and the views can read.         *)
(* JSON.stringify drops undefined properties and writes a Date as its ISO  *)
(* string, which JSON.parse leaves a string: the snapshot's scheduledTime  *)
(* is the time value the string denotes, not a Date record.                *)
(***************************************************************************)
NoData == [kind |-> "malformed", id |-> {}, completed |-> {}, scheduledTime |-> {}]

JSONnull == [kind |-> "null", id |-> {}, completed |-> {}, scheduledTime |-> {}]

\* no store operation has run yet
NoOp ==
  [op |-> "none", before |-> <<>>, at |-> date(0, 0, 0), text |-> NoData,
   inTurn |-> <<>>]

\* JSON.stringify(task)
stringify(task) ==
  [kind |-> "object", id |-> {task.id}, completed |-> {task.completed},
   scheduledTime |-> { getTime(d) : d \in task.scheduledTime }]

\* texts a drag that did not start in the sidebar may carry
ForeignTexts ==
  { NoData, JSONnull,
    [kind |-> "object", id |-> {}, completed |-> {}, scheduledTime |-> {}],
    [kind |-> "object", id |-> {"0"}, completed |-> {FALSE}, scheduledTime |-> {}] }

\* the days and hours of the calendar slots a task is dropped on
SlotDays == {Today}
SlotHours == {9, 13}

\* JSON.parse(text) throws a SyntaxError
parseThrows(text) == text.kind = "malformed"

\* taskData.id throws a TypeError
idThrows(text) == text.kind = "null"

\* (handleDrop with `taskData.id` read outside the try block)
handleDropUncaught(ts, text, day, hour) ==
  IF parseThrows(text) \/ idThrows(text)
    THEN [tasks |-> ts, escaped |-> idThrows(text)]
    ELSE [tasks |-> updateTask(ts, text.id,
                      [scheduledTime |-> {setHours(date(day, 0, 0), hour, 0, 0, 0)}]),
          escaped |-> FALSE]

\* handleDrop: the list in the store afterwards, and whether an error
\* left the handler.  Both throwing expressions are inside the try block.
handleDrop(ts, text, day, hour) ==
  IF parseThrows(text) \/ idThrows(text)
    THEN [tasks |-> ts, escaped |-> FALSE]
    ELSE [tasks |-> updateTask(ts, text.id,
                      [scheduledTime |-> {setHours(date(day, 0, 0), hour, 0, 0, 0)}]),
          escaped |-> FALSE]

(***************************************************************************)
(* The handlers.  Each runs against the list of the latest render: React   *)
(* re-renders TaskCalendar after the event a handler served.               *)
(***************************************************************************)
NewTasks ==
  { [id |-> "", title |-> "new task", importance |-> imp, dueDate |-> due,
     completed |-> FALSE, scheduledTime |-> {}] :
       imp \in {5, 8}, due \in {{}, {date(Today + 1, 0, 0)}} }

\* a handler runs and React renders the list it handed to setTasks;
\* `clock` is what the clock reads then, `inTurn` the list its store calls
\* give when each is applied to the result of the one before
Run(op, clock, result, inTurn) ==
  /\ steps < MaxSteps
  /\ steps' = steps + 1
  /\ getTime(clock) >= getTime(now)
  /\ now' = clock
  /\ tasks' = result
  /\ last' = [op |-> op, before |-> tasks, at |-> clock, text |-> dataTransfer,
              inTurn |-> inTurn]

AddTask ==
  /\ Len(tasks) < MaxTasks
  /\ \E newTask \in NewTasks, clock \in Clocks :
       LET result == addTask(tasks, newTask, clock) IN
       Run("add", clock, result, result)
  /\ UNCHANGED <<dataTransfer, escaped>>

ToggleCompleted ==
  /\ \E i \in 1..Len(tasks) :
       LET result == updateTask(tasks, {tasks[i].id},
                                [completed |-> ~tasks[i].completed]) IN
       Run("toggle", now, result, result)
  /\ UNCHANGED <<dataTransfer, escaped>>

DeleteTask ==
  /\ \E i \in 1..Len(tasks) :
       LET result == deleteTask(tasks, tasks[i].id) IN
       Run("delete", now, result, result)
  /\ UNCHANGED <<dataTransfer, escaped>>

SortTasksByAI ==
  /\ \E clock \in Clocks :
       LET result == sortTasksByAI(tasks, clock) IN
       Run("sort", clock, result, result)
  /\ UNCHANGED <<dataTransfer, escaped>>

\* handleDragStart on a sidebar entry; only incomplete tasks are draggable
DragStart ==
  /\ \E i \in 1..Len(tasks) :
       /\ ~tasks[i].completed
       /\ dataTransfer' = stringify(tasks[i])
  /\ steps < MaxSteps
  /\ steps' = steps + 1
  /\ UNCHANGED <<tasks, now, escaped, last>>

\* a drag that starts outside the sidebar
DragForeign ==
  /\ dataTransfer' \in ForeignTexts
  /\ steps < MaxSteps
  /\ steps' = steps + 1
  /\ UNCHANGED <<tasks, now, escaped, last>>

HandleDrop ==
  /\ \E day \in SlotDays, hour \in SlotHours :
       LET r == handleDrop(tasks, dataTransfer, day, hour) IN
       /\ Run("drop", now, r.tasks, r.tasks)
       /\ escaped' = (escaped \/ r.escaped)
  /\ dataTransfer' = NoData

Init ==
  /\ tasks = InitialTasks
  /\ now \in Clocks
  /\ dataTransfer = NoData
  /\ escaped = FALSE
  /\ last = NoOp
  /\ steps = 0

Next ==
  \/ AddTask
  \/ ToggleCompleted
  \/ DeleteTask
  \/ SortTasksByAI
  \/ DragStart
  \/ DragForeign
  \/ HandleDrop

Spec == Init /\ [][Next]_vars

(***************************************************************************)
(* Two store calls from the closures of one render.  addTask, updateTask,  *)
(* deleteTask and sortTasksByAI each hand setTasks a list computed from    *)
(* the `tasks` of the render that created them, not an updater function:   *)
(* React keeps the list of the call made last.                             *)
(***************************************************************************)
\* the calls the closures of the render of list ts offer at `clock`
Calls(ts, clock) ==
  { [fn |-> "add", newTask |-> newTask, id |-> "", completed |-> FALSE, clock |-> clock] :
      newTask \in NewTasks }
  \cup
  { [fn |-> "toggle", newTask |-> ts[i], id |-> ts[i].id,
     completed |-> ~ts[i].completed, clock |-> clock] : i \in 1..Len(ts) }
  \cup
  { [fn |-> "delete", newTask |-> ts[i], id |-> ts[i].id,
     completed |-> FALSE, clock |-> clock] : i \in 1..Len(ts) }
  \cup
  { [fn |-> "sort", newTask |-> CHOOSE newTask \in NewTasks : TRUE, id |-> "",
     completed |-> FALSE, clock |-> clock] }

\* the list a call hands to setTasks when its closure holds the list ts
apply(call, ts) ==
  CASE call.fn = "add"    -> addTask(ts, call.newTask, call.clock)
    [] call.fn = "toggle" -> updateTask(ts, {call.id}, [completed |-> call.completed])
    [] call.fn = "delete" -> deleteTask(ts, call.id)
    [] call.fn = "sort"   -> sortTasksByAI(ts, call.clock)

\* one event makes two store calls before React renders again
Batch ==
  /\ steps + 1 < MaxSteps
  /\ Len(tasks) + 1 < MaxTasks
  /\ \E clock \in Clocks :
       \E first \in Calls(tasks, clock), second \in Calls(tasks, clock) :
         /\ first # second
         /\ Run("batch", clock, apply(second, tasks),
                apply(second, apply(first, tasks)))
  /\ UNCHANGED <<dataTransfer, escaped>>

BatchNext ==
  \/ Next
  \/ Batch

BatchSpec == Init /\ [][BatchNext]_vars

(***************************************************************************)
(* sortTasksByAI as a function of its inputs: any task list, any clock     *)
(***************************************************************************)
Importances == {5, 6, 8}
DueDates == {{}, {date(Today + 1, 0, 0)}, {date(Today + 3, 0, 0)}}
ScheduledTimes == {{}, {date(Today, 13, 0)}}

\* an incomplete, unscheduled task of any importance and due date, or a
\* completed or scheduled one
Shapes ==
  { s \in [importance : Importances, dueDate : DueDates,
           completed : BOOLEAN, scheduledTime : ScheduledTimes] :
      (s.completed \/ s.scheduledTime # {}) => (s.importance = 6 /\ s.dueDate = {}) }

MakeTask(i, s) ==
  [id |-> ToString(i), title |-> "task " \o ToString(i), importance |-> s.importance,
   dueDate |-> s.dueDate, completed |-> s.completed, scheduledTime |-> s.scheduledTime]

SortInit ==
  /\ \E n \in 0..MaxLen : \E f \in [1..n -> Shapes] :
        tasks = [i \in 1..n |-> MakeTask(i, f[i])]
  /\ now \in Clocks
  /\ dataTransfer = NoData
  /\ escaped = FALSE
  /\ last = NoOp
  /\ steps = 0

SortNext == steps = 0 /\ SortTasksByAI

SortSpec == SortInit /\ [][SortNext]_vars

(***************************************************************************)
(* Properties of sortTasksByAI                                             *)
(***************************************************************************)
\* the step just taken was sortTasksByAI, on the list last.before at last.at
Sorted == last.op = "sort"

\* the task of the list before the call that tasks[i] stems from
Origin(i) == CHOOSE b \in { last.before[j] : j \in 1..Len(last.before) } : b.id = tasks[i].id

\* tasks[i] was incomplete and unscheduled when sortTasksByAI was called
Placed(i) == ~Origin(i).completed /\ Origin(i).scheduledTime = {}

Day(i) == Value(tasks[i].scheduledTime).day

SameSlot(d, e) == d.day = e.day /\ d.hour = e.hour

ConflictFree(ts) ==
  \A i, j \in 1..Len(ts) :
    (i < j /\ ts[i].scheduledTime # {} /\ ts[j].scheduledTime # {})
      => ~SameSlot(Value(ts[i].scheduledTime), Value(ts[j].scheduledTime))

Occurrences(ts, id) == Cardinality({ i \in 1..Len(ts) : ts[i].id = id })

\* C1: after sortTasksByAI every task that is not completed has a
\* scheduledTime, whatever the list it was called on.
C1_IncompleteScheduled ==
  Sorted => \A i \in 1..Len(tasks) : ~tasks[i].completed => tasks[i].scheduledTime # {}

C1_Witness ==
  /\ Sorted
  /\ \E i, j \in 1..Len(tasks) :
       /\ i # j /\ Placed(i) /\ Placed(j)
       /\ Origin(i).dueDate = {} /\ Origin(j).dueDate # {}
       /\ tasks[i].scheduledTime # {} /\ tasks[j].scheduledTime # {}

\* C2: if no two scheduled tasks shared a calendar day and hour before
\* sortTasksByAI, no two scheduled tasks share a day and hour after it.
C2_ConflictFree ==
  (Sorted /\ ConflictFree(last.before)) => ConflictFree(tasks)

\* C3: sortTasksByAI keeps the same tasks (each id as often as before); a
\* task that was completed or already scheduled keeps every field, and a
\* task it schedules keeps every field but scheduledTime.
C3_Frame ==
  Sorted =>
    /\ Len(tasks) = Len(last.before)
    /\ \A j \in 1..Len(last.before) :
         Occurrences(tasks, last.before[j].id) = Occurrences(last.before, last.before[j].id)
    /\ \A i \in 1..Len(tasks) :
         /\ Occurrences(last.before, tasks[i].id) = 1
         /\ IF Placed(i)
              THEN [tasks[i] EXCEPT !.scheduledTime = {}] = Origin(i)
              ELSE tasks[i] = Origin(i)

C3_Witness ==
  /\ Sorted
  /\ tasks # last.before
  /\ \E i, j, k \in 1..Len(tasks) :
       /\ Placed(i) /\ tasks[i] # Origin(i)
       /\ Origin(j).completed /\ Origin(j).scheduledTime = {}
       /\ ~Origin(k).completed /\ Origin(k).scheduledTime # {}
       /\ last.before[i].id # tasks[i].id

\* C4: a task that sortTasksByAI schedules gets hour 9 when its importance
\* is at least 8, hour 13 when it is 6 or 7 and hour 15 otherwise, with
\* minutes, seconds and milliseconds 0.
C4_HourByTier ==
  Sorted =>
    \A i \in 1..Len(tasks) :
      Placed(i) =>
        LET t == Value(tasks[i].scheduledTime)
            imp == tasks[i].importance
        IN /\ imp >= 8 => t.hour = 9
           /\ imp \in {6, 7} => t.hour = 13
           /\ imp < 6 => t.hour = 15
           /\ t.minute = 0 /\ t.second = 0 /\ t.ms = 0

C4_Witness ==
  /\ Sorted
  /\ last.at.minute # 0 /\ last.at.ms # 0
  /\ \E i, j, k \in 1..Len(tasks) :
       /\ Placed(i) /\ Placed(j) /\ Placed(k)
       /\ tasks[i].importance = 8 /\ Value(tasks[i].scheduledTime).hour = 9
       /\ tasks[j].importance = 6 /\ Value(tasks[j].scheduledTime).hour = 13
       /\ tasks[k].importance = 5 /\ Value(tasks[k].scheduledTime).hour = 15
       /\ Origin(i).dueDate = {} /\ Origin(j).dueDate # {}

\* C5 (as stated): sortTasksByAI gives the same list for the same task
\* list, whenever it is called.
C5_Deterministic ==
  Sorted => \A c \in Clocks : sortTasksByAI(last.before, c) = tasks

\* C5 (amended): sortTasksByAI gives the same list for the same task list
\* whenever it is called on the same calendar day.
C5_DeterministicPerDay ==
  Sorted =>
    \A c \in Clocks : c.day = last.at.day => sortTasksByAI(last.before, c) = tasks

C5_Witness ==
  /\ Sorted
  /\ \E c \in Clocks : c.day = last.at.day /\ c # last.at
  /\ \E i \in 1..Len(tasks) : Placed(i) /\ Origin(i).dueDate = {}
  /\ \E i \in 1..Len(tasks) : Placed(i) /\ Origin(i).dueDate # {}

\* C7: after sortTasksByAI the list is ordered by importance, highest
\* first: of two adjacent tasks the earlier one's importance is not lower.
C7_ByImportance ==
  Sorted =>
    \A i \in 1..(Len(tasks) - 1) : tasks[i].importance >= tasks[i + 1].importance

C7_Witness ==
  /\ Sorted
  /\ Len(tasks) >= 3
  /\ \E i \in 1..(Len(last.before) - 1) :
       last.before[i].importance < last.before[i + 1].importance
  /\ tasks[1].importance > tasks[Len(tasks)].importance
  /\ \E i \in 1..Len(tasks) : Origin(i).completed
  /\ \E i \in 1..Len(tasks) : Origin(i).scheduledTime # {}
  /\ \E i \in 1..Len(tasks) : Origin(i).dueDate # {}

\* C8: of two incomplete, unscheduled tasks with the same dueDate, the one
\* with the higher importance is scheduled on a day that is no later than
\* the day of the one with the lower importance.
C8_HighPriorityEarlier ==
  Sorted =>
    \A i, j \in 1..Len(tasks) :
      ( /\ Placed(i) /\ Placed(j)
        /\ tasks[i].dueDate # {} /\ tasks[i].dueDate = tasks[j].dueDate
        /\ tasks[i].importance > tasks[j].importance )
      => Day(i) <= Day(j)

\* C9: of two tasks with equal importance that both have a dueDate, the one
\* with the earlier dueDate comes first in the list sortTasksByAI produces.
C9_TiesByDueDate ==
  Sorted =>
    \A i, j \in 1..Len(tasks) :
      ( /\ tasks[i].importance = tasks[j].importance
        /\ tasks[i].dueDate # {} /\ tasks[j].dueDate # {}
        /\ getTime(Value(tasks[i].dueDate)) < getTime(Value(tasks[j].dueDate)) )
      => i < j

\* C10: a task without a dueDate that sortTasksByAI schedules gets the day
\* of the call plus floor(index / 3), index being its position (from 0) in
\* the sorted list of all tasks; so its day is not before the day of the
\* call nor before the day of a due-date-less task placed above it.
C10_IndexFallback ==
  Sorted =>
    \A i \in 1..Len(tasks) :
      (Placed(i) /\ tasks[i].dueDate = {}) =>
        /\ Day(i) = last.at.day + (i - 1) \div 3
        /\ Day(i) >= last.at.day
        /\ \A k \in 1..(i - 1) :
             (Placed(k) /\ tasks[k].dueDate = {}) => Day(k) <= Day(i)

C10_Witness ==
  /\ Sorted
  /\ \E i, k \in 1..Len(tasks) :
       /\ k < i /\ i > 3
       /\ Placed(i) /\ tasks[i].dueDate = {}
       /\ Placed(k) /\ tasks[k].dueDate = {}
       /\ Day(k) = last.at.day /\ Day(i) = last.at.day + 1
  /\ \E j \in 1..Len(tasks) : ~Placed(j)

(***************************************************************************)
(* Properties of the drop handler                                          *)
(***************************************************************************)
Dropped == last.op = "drop"

\* the dropped text is not parseable, parses to a value without an id
\* (null included), or names a task that is not in the list
Malformed(text, ts) ==
  \/ text.kind = "malformed"
  \/ text.kind = "null"
  \/ text.id = {}
  \/ \A i \in 1..Len(ts) : {ts[i].id} # text.id

\* C6: a drop of a malformed payload leaves the task list as it was, and no
\* error leaves handleDrop.
C6_MalformedIgnored ==
  /\ ~escaped
  /\ (Dropped /\ Malformed(last.text, last.before)) => tasks = last.before

\* a task is dragged, deleted while the drag is on, and dropped
C6_Witness ==
  /\ Dropped
  /\ last.text.kind = "object" /\ last.text.id # {}
  /\ Malformed(last.text, last.before)
  /\ Len(last.before) > 0
  /\ \E i \in 1..Len(InitialTasks) : last.text.id = {InitialTasks[i].id}

\* a drop of text that is not JSON, and one of the text "null"
C6_WitnessSyntax == Dropped /\ last.text.kind = "malformed" /\ Len(tasks) > 0
C6_WitnessNull == Dropped /\ last.text.kind = "null" /\ Len(tasks) > 0

\* the payload of the drop names a task of the list it was dropped on
Matched ==
  /\ Dropped
  /\ last.text.kind = "object"
  /\ \E i \in 1..Len(last.before) : {last.before[i].id} = last.text.id

\* C11: a drop whose id matches a task sets that task's scheduledTime to
\* the slot's day and hour with 0 minutes, leaves every other task as it
\* was, and leaves every other field of the dropped task at its value in
\* the store.
C11_DropFrame ==
  Matched =>
    /\ Len(tasks) = Len(last.before)
    /\ \E i \in 1..Len(tasks) :
         /\ {last.before[i].id} = last.text.id
         /\ \E day \in SlotDays, hour \in SlotHours :
              tasks[i] = [last.before[i] EXCEPT
                            !.scheduledTime = {[day |-> day, hour |-> hour,
                                                minute |-> 0, second |-> 0, ms |-> 0]}]
         /\ \A j \in 1..Len(tasks) : j # i => tasks[j] = last.before[j]

(***************************************************************************)
(* Properties of the task ids                                              *)
(***************************************************************************)
\* C12: no two tasks of the list have the same id, in every state reached
\* from the three initial tasks, whatever the clock read by each addTask.
C12_UniqueIds ==
  \A i, j \in 1..Len(tasks) : i # j => tasks[i].id # tasks[j].id

(***************************************************************************)
(* Properties of store calls made from one render                          *)
(***************************************************************************)
\* C13: when two store operations are invoked from closures of the same
\* render, the resulting list reflects both: it is the list the second
\* gives on the result of the first.
C13_NoLostUpdate ==
  last.op = "batch" => tasks = last.inTurn

(***************************************************************************)
(* Properties of the scheduled times                                       *)
(***************************************************************************)
\* C14: every scheduledTime that sortTasksByAI assigns is on the calendar
\* day of the call or a later day.
C14_NotInThePast ==
  Sorted => \A i \in 1..Len(tasks) : Placed(i) => Day(i) >= last.at.day

\* the tasks of list ts with this id whose scheduledTime is `opt`
Holding(ts, id, opt) ==
  Cardinality({ i \in 1..Len(ts) : ts[i].id = id /\ ts[i].scheduledTime = opt })

\* the tasks of list ts with this id that have a scheduledTime
Scheduled(ts, id) ==
  Cardinality({ i \in 1..Len(ts) : ts[i].id = id /\ ts[i].scheduledTime # {} })

InList(ts, id) == \E i \in 1..Len(ts) : ts[i].id = id

\* the step is a drop, on a calendar slot, of the task with this id
DropOf(id) == HandleDrop /\ dataTransfer.kind = "object" /\ dataTransfer.id = {id}

====
